---- MODULE Spec2Model ----
(***************************************************************************)
(* State-machine model of the CAD prediction web application: the          *)
(* multi-role SQLite backend (backend/app_sqlite_old.py) and the MongoDB   *)
(* backend (backend/app_mongodb.py).  The stored state is the users table  *)
(* and the predictions / assessments table; the per-client state is the    *)
(* Flask session cookie.  One action per request handler; register_user    *)
(* and update_user_profile are split at the point between their existence  *)
(* check and their write, where another request can interleave.            *)
(*                                                                         *)
(* Text values are sequences of one-character strings, so that len(),      *)
(* str.strip() and comparisons are computed rather than assumed.           *)
(***************************************************************************)
EXTENDS Integers, Sequences, FiniteSets, TLC

VARIABLES
    variant,      \* "sqlite" | "mongodb": which backend module is running
    modelLoaded,  \* model and scaler were unpickled at import time
    dbUp,         \* the storage backend answers (sqlite file / Atlas cluster)
    clock,        \* CURRENT_TIMESTAMP / datetime.utcnow()
    users,        \* users table: row id = index
    predictions,  \* predictions table / assessments collection: row id = index
    session,      \* client -> the session cookie in the client's jar
    discarded,    \* client -> the cookie value the last logout told it to drop
    reg,          \* registration request -> where it stands in register_user
    upd,          \* client -> where its POST /profile/update stands
    last,         \* what the most recently finished request did and answered
    log,          \* single-role app: the records of predictions.csv
    job,          \* single-role app: client -> where its prediction request stands
    profiles      \* MongoDB: the patient_profiles and doctor_profiles documents

vars == <<variant, modelLoaded, dbUp, clock, users, predictions, session,
          discarded, reg, upd, last, log, job, profiles>>

---------------------------------------------------------------------------
(* Bounds of the model *)

MaxUsers == 2
MaxPredictions == 2
MaxClock == 1
\* assessments stored while the doctor's listing is paged through
MaxListed == 3
\* records in predictions.csv
MaxLog == 2

(* Program constants *)
MinUsernameLen == 3
MinPasswordLen == 6
DefaultPerPage == 10
LogTail == 100
\* probabilities are counted in units of 1/100000
LowThreshold == 33000
HighThreshold == 67000

Clients == {"c1", "c2"}
RegRequests == {"r1", "r2"}
Variants == {"sqlite", "mongodb"}

---------------------------------------------------------------------------
(* Text values *)

Bob == <<"b", "o", "b">>
Amy == <<"a", "m", "y">>
Al == <<"a", "l">>
PadBob == <<" ">> \o Bob
Secret1 == <<"s", "e", "c", "r", "e", "t", "1">>
Hunter2 == <<"h", "u", "n", "t", "e", "r", "2">>
Pass == <<"p", "a", "s", "s">>
MailA == <<"a", "@", "x">>
MailB == <<"b", "@", "x">>
Empty == <<>>

RECURSIVE LStrip(_)
LStrip(s) == IF s # <<>> /\ Head(s) = " " THEN LStrip(Tail(s)) ELSE s

RECURSIVE RStrip(_)
RStrip(s) ==
    IF s # <<>> /\ s[Len(s)] = " " THEN RStrip(SubSeq(s, 1, Len(s) - 1)) ELSE s

\* str.strip()
Strip(s) == RStrip(LStrip(s))

\* werkzeug generate_password_hash: a one-way salted digest of the password;
\* the digest is kept abstract and the salt is left out
generate_password_hash(password) == [digest |-> password]

\* werkzeug check_password_hash: recomputes the digest of the candidate
check_password_hash(pwhash, password) == pwhash = generate_password_hash(password)

---------------------------------------------------------------------------
(* Sessions: Flask's signed cookie session.  The cookie itself holds the   *)
(* data; the server keeps no session table.                                *)

NoId == 0
EmptySession == [user_id |-> NoId, role |-> "none", username |-> Empty]

\* 'user_id' in session
HasUserId(s) == s.user_id # NoId

\* the cookie values a client can send: the one in its jar, or a copy of the
\* one its last logout told it to delete
Presentable(c) == {session[c]} \cup {discarded[c]}

---------------------------------------------------------------------------
(* The users table *)

UserIds == 1..Len(users)

\* SELECT id FROM users WHERE username = ?  /  find_one({'username': username})
\* (the comparison is exact, hence case-sensitive)
UsersNamed(username) == {i \in UserIds : users[i].username = username}

\* find_one({'email': email})
UsersWithEmail(email) == {i \in UserIds : users[i].email = email}

\* a users table that declares no uniqueness rule
NoUniqueConstraint(row, self) == FALSE

\* The storage layer's uniqueness rule for a row written as user `self`
\* (NoId for an insert): sqlite declares users.username UNIQUE, MongoDB has a
\* unique index on username and another on email.
UniqueViolation(row, self) ==
    \E i \in UserIds \ {self} :
        \/ users[i].username = row.username
        \/ variant = "mongodb" /\ users[i].email = row.email

\* What the except branches of register_user return when the insert raises
DuplicateMessage ==
    IF variant = "sqlite"
    THEN "Registration error: UNIQUE constraint failed: users.username"
    ELSE "Username or email already exists"

StorageErrorMessage == "Registration error: storage unavailable"

\* a validation that takes any role
validation_without_role(username, password, role) ==
    IF username = Empty \/ Len(username) < MinUsernameLen
    THEN "Username must be at least 3 characters"
    ELSE IF password = Empty \/ Len(password) < MinPasswordLen
    THEN "Password must be at least 6 characters"
    ELSE "ok"

\* The argument checks at the top of register_user
ValidationMessage(username, password, role) ==
    IF username = Empty \/ Len(username) < MinUsernameLen
    THEN "Username must be at least 3 characters"
    ELSE IF password = Empty \/ Len(password) < MinPasswordLen
    THEN "Password must be at least 6 characters"
    ELSE IF role \notin {"patient", "doctor"}
    THEN IF variant = "sqlite" THEN "Invalid role"
         ELSE "Invalid role. Must be 'patient' or 'doctor'"
    ELSE "ok"

\* The existence checks register_user makes before it inserts
ExistsMessage(username, email) ==
    IF UsersNamed(username) # {} THEN "Username already exists"
    ELSE IF variant = "mongodb" /\ UsersWithEmail(email) # {}
    THEN "Email already registered"
    ELSE "ok"

\* `checked`: the request got past the existence check to the INSERT
IdleReg == [pc |-> "idle", username |-> Empty, email |-> Empty,
            password |-> Empty, role |-> "none", checked |-> FALSE,
            ok |-> FALSE, message |-> "none"]

RegDone(username, role, checked, ok, message) ==
    [pc |-> "done", username |-> username, email |-> Empty, password |-> Empty,
     role |-> role, checked |-> checked, ok |-> ok, message |-> message]

\* POST /register_patient, POST /register_doctor up to and including the
\* existence check of register_user
RegisterCheck(r, role, rawUsername, rawEmail, rawPassword, rawConfirm) ==
    /\ UNCHANGED <<log, job, profiles>>
    /\ reg[r].pc # "insert"
    /\ LET username == Strip(rawUsername)
           email == Strip(rawEmail)
           password == Strip(rawPassword)
           confirm == Strip(rawConfirm)
           invalid == ValidationMessage(username, password, role)
           exists == ExistsMessage(username, email)
       IN  reg' = [reg EXCEPT ![r] =
               IF password # confirm
               THEN RegDone(username, role, FALSE, FALSE, "Passwords do not match")
               ELSE IF invalid # "ok"
               THEN RegDone(username, role, FALSE, FALSE, invalid)
               ELSE IF ~dbUp
               THEN RegDone(username, role, FALSE, FALSE, StorageErrorMessage)
               ELSE IF exists # "ok"
               THEN RegDone(username, role, FALSE, FALSE, exists)
               ELSE [pc |-> "insert", username |-> username, email |-> email,
                     password |-> password, role |-> role, checked |-> TRUE,
                     ok |-> FALSE, message |-> "none"]]
    /\ UNCHANGED <<variant, modelLoaded, dbUp, clock, users, predictions,
                   session, discarded, upd, last>>

\* register_user from generate_password_hash to its return: the INSERT, under
\* the storage layer's uniqueness rule
\* the patient_profiles / doctor_profiles document of a new user
profile_doc(user_id, role) ==
    [collection |-> IF role = "patient" THEN "patient_profiles" ELSE "doctor_profiles",
     user_id |-> user_id]

\* register_user from the insert on; in MongoDB the user document and then
\* the profile document
RegisterInsert(r) ==
    /\ UNCHANGED <<log, job>>
    /\ reg[r].pc = "insert"
    /\ LET row == [username |-> reg[r].username, email |-> reg[r].email,
                   password_hash |-> generate_password_hash(reg[r].password),
                   role |-> reg[r].role]
       IN  IF ~dbUp
           THEN /\ reg' = [reg EXCEPT ![r] =
                       RegDone(row.username, row.role, TRUE, FALSE, StorageErrorMessage)]
                /\ UNCHANGED <<users, profiles>>
           ELSE IF UniqueViolation(row, NoId)
           THEN /\ reg' = [reg EXCEPT ![r] =
                       RegDone(row.username, row.role, TRUE, FALSE, DuplicateMessage)]
                /\ UNCHANGED <<users, profiles>>
           ELSE /\ Len(users) < MaxUsers
                /\ users' = Append(users, row)
                /\ profiles' = IF variant = "mongodb"
                               THEN Append(profiles, profile_doc(Len(users) + 1, row.role))
                               ELSE profiles
                /\ reg' = [reg EXCEPT ![r] =
                       RegDone(row.username, row.role, TRUE, TRUE,
                               "Registration successful")]
    /\ UNCHANGED <<variant, modelLoaded, dbUp, clock, predictions, session,
                   discarded, upd, last>>

\* register_user of MongoDB when the cluster stops answering after the user
\* document was inserted: the profile insert raises, the except clause
\* returns the failure
RegisterInterrupted(r) ==
    /\ reg[r].pc = "insert"
    /\ variant = "mongodb"
    /\ dbUp
    /\ LET row == [username |-> reg[r].username, email |-> reg[r].email,
                   password_hash |-> generate_password_hash(reg[r].password),
                   role |-> reg[r].role]
       IN  /\ ~UniqueViolation(row, NoId)
           /\ Len(users) < MaxUsers
           /\ users' = Append(users, row)
           /\ reg' = [reg EXCEPT ![r] =
                   RegDone(row.username, row.role, TRUE, FALSE, StorageErrorMessage)]
    /\ dbUp' = FALSE
    /\ UNCHANGED <<variant, modelLoaded, clock, predictions, session,
                   discarded, upd, last, log, job, profiles>>

---------------------------------------------------------------------------
(* Login, logout and the access-control decorators *)

NoInfo == [user_id |-> NoId, role |-> "none", username |-> Empty]

\* a login_user that never looks at the password
login_without_password_check(username, password) ==
    IF ~dbUp \/ UsersNamed(username) = {} THEN [ok |-> FALSE, info |-> NoInfo]
    ELSE LET i == CHOOSE j \in UsersNamed(username) : TRUE
         IN  [ok |-> TRUE,
              info |-> [user_id |-> i, role |-> users[i].role,
                        username |-> users[i].username]]

\* a login_user whose failure tells an unknown username from a wrong password
login_naming_unknown_user(username, password) ==
    IF ~dbUp THEN [ok |-> FALSE, info |-> NoInfo]
    ELSE IF UsersNamed(username) = {}
    THEN [ok |-> FALSE,
          info |-> [user_id |-> NoId, role |-> "unknown", username |-> username]]
    ELSE LET i == CHOOSE j \in UsersNamed(username) : TRUE
         IN  IF check_password_hash(users[i].password_hash, password)
             THEN [ok |-> TRUE,
                   info |-> [user_id |-> i, role |-> users[i].role,
                             username |-> users[i].username]]
             ELSE [ok |-> FALSE, info |-> NoInfo]

\* login_user: (success, user_info); (False, None) is [ok |-> FALSE, info |-> NoInfo].
\* fetchone() takes the first row the query yields.
login_user(username, password) ==
    IF ~dbUp \/ UsersNamed(username) = {} THEN [ok |-> FALSE, info |-> NoInfo]
    ELSE LET i == CHOOSE j \in UsersNamed(username) :
                      \A k \in UsersNamed(username) : j <= k
         IN  IF check_password_hash(users[i].password_hash, password)
             THEN [ok |-> TRUE,
                   info |-> [user_id |-> i, role |-> users[i].role,
                             username |-> users[i].username]]
             ELSE [ok |-> FALSE, info |-> NoInfo]

\* What a finished request is remembered by: the route, the client, the
\* cookie it presented, whether the route's own body ran, the response, and
\* route-specific data.
Obs(op, c, tok, invoked, resp, data) ==
    [op |-> op, client |-> c, token |-> tok, invoked |-> invoked,
     resp |-> resp, data |-> data]

NoData == <<>>

\* no single-role prediction request of the client is under way
IdleJob == [pc |-> "idle", token |-> EmptySession, df |-> <<>>, record |-> NoData]

\* POST /login
Login(c, rawUsername, rawPassword) ==
    /\ UNCHANGED <<log, job, profiles>>
    /\ upd[c].pc = "idle"
    /\ LET username == Strip(rawUsername)
           password == Strip(rawPassword)
           res == login_user(username, password)
           known == UsersNamed(username) # {}
       IN  IF username = Empty \/ password = Empty
           THEN /\ last' = Obs("login", c, session[c], TRUE,
                               "login.html: Username and password required",
                               [called |-> FALSE, ok |-> FALSE, info |-> NoInfo,
                                known |-> known])
                /\ UNCHANGED <<session, discarded>>
           ELSE IF res.ok
           THEN /\ session' = [session EXCEPT ![c] = res.info]
                /\ discarded' = [discarded EXCEPT ![c] = EmptySession]
                /\ last' = Obs("login", c, session[c], TRUE,
                               IF res.info.role = "doctor"
                               THEN "redirect: doctor_dashboard"
                               ELSE "redirect: patient_dashboard",
                               [called |-> TRUE, ok |-> TRUE, info |-> res.info,
                                known |-> known])
           ELSE /\ last' = Obs("login", c, session[c], TRUE,
                               "login.html: Invalid username or password",
                               [called |-> TRUE, ok |-> res.ok, info |-> res.info,
                                known |-> known])
                /\ UNCHANGED <<session, discarded>>
    /\ UNCHANGED <<variant, modelLoaded, dbUp, clock, users, predictions, reg, upd>>

\* a logout that leaves the session cookie in the client's jar
logout_keeping_session(c) ==
    /\ UNCHANGED <<log, job, profiles>>
    /\ upd[c].pc = "idle"
    /\ discarded' = [discarded EXCEPT ![c] =
                        IF HasUserId(session[c]) THEN session[c] ELSE discarded[c]]
    /\ last' = Obs("logout", c, session[c], TRUE, "redirect: login", NoData)
    /\ UNCHANGED <<variant, modelLoaded, dbUp, clock, users, predictions,
                   session, reg, upd>>

\* GET /logout: session.clear(); the response tells the client to drop its
\* cookie.  Nothing is recorded on the server, so the dropped value is still a
\* validly signed cookie for as long as its lifetime lasts.
Logout(c) ==
    /\ UNCHANGED <<log, job, profiles>>
    /\ upd[c].pc = "idle"
    /\ session' = [session EXCEPT ![c] = EmptySession]
    /\ discarded' = [discarded EXCEPT ![c] =
                        IF HasUserId(session[c]) THEN session[c] ELSE discarded[c]]
    /\ last' = Obs("logout", c, session[c], TRUE, "redirect: login", NoData)
    /\ UNCHANGED <<variant, modelLoaded, dbUp, clock, users, predictions, reg, upd>>

\* The decorators: TRUE when the wrapped function is called
login_required(s) == HasUserId(s)

\* a patient_required that does not look at the role
any_role_accepted(s) == HasUserId(s)

patient_required(s) == HasUserId(s) /\ s.role = "patient"

doctor_required(s) == HasUserId(s) /\ s.role = "doctor"

\* The decorator's other branch: redirect(url_for('login')), nothing else
Denied(op, c, tok) ==
    /\ last' = Obs(op, c, tok, FALSE, "redirect: login", NoData)
    /\ UNCHANGED <<variant, modelLoaded, dbUp, clock, users, predictions,
                   session, discarded, reg, upd>>

---------------------------------------------------------------------------
(* Risk categories *)

\* get_risk_category with the first comparison made inclusive
risk_category_inclusive(probability) ==
    IF probability <= LowThreshold THEN "LOW"
    ELSE IF probability < HighThreshold THEN "MEDIUM"
    ELSE "HIGH"

\* app_sqlite_old.get_risk_category (the category; the colour follows it)
get_risk_category_sqlite(probability) ==
    IF probability < LowThreshold THEN "LOW"
    ELSE IF probability < HighThreshold THEN "MEDIUM"
    ELSE "HIGH"

\* app_mongodb.get_risk_category
get_risk_category_mongodb(probability) ==
    IF probability < LowThreshold THEN "LOW"
    ELSE IF probability < HighThreshold THEN "MEDIUM"
    ELSE "HIGH"

\* app_v2.get_risk_category
get_risk_category_v2(probability) ==
    IF probability < LowThreshold THEN "LOW"
    ELSE IF probability < HighThreshold THEN "MEDIUM"
    ELSE "HIGH"

\* app_old.get_risk_category
get_risk_category_old(probability) ==
    IF probability < LowThreshold THEN "LOW"
    ELSE IF probability < HighThreshold THEN "MEDIUM"
    ELSE "HIGH"

get_risk_category(probability) ==
    IF variant = "sqlite" THEN get_risk_category_sqlite(probability)
    ELSE get_risk_category_mongodb(probability)

risk_color(category) ==
    IF category = "LOW" THEN "#27ae60"
    ELSE IF category = "MEDIUM" THEN "#f39c12"
    ELSE "#e74c3c"

get_recommendation(risk_category) ==
    IF risk_category = "LOW"
    THEN "Continue regular health check-ups. Maintain healthy lifestyle."
    ELSE IF risk_category = "MEDIUM"
    THEN "Schedule appointment with cardiologist for further evaluation."
    ELSE IF risk_category = "HIGH"
    THEN "URGENT: Consult cardiologist immediately. Consider additional testing."
    ELSE "Unable to generate recommendation due to error."

\* round(probability * 100, 2), in hundredths of a percent (ties to even)
RoundPct(probability) ==
    LET q == probability \div 10
        r == probability % 10
    IN  IF r > 5 \/ (r = 5 /\ q % 2 = 1) THEN q + 1 ELSE q

---------------------------------------------------------------------------
(* The prediction form *)

\* The dataset's feature columns, in their order; two of the twelve stand
\* for all of them
FEATURE_NAMES == <<"age", "ejection_fraction">>

NoneV == <<"None">>
Num55 == <<"5", "5">>
NotANumber == <<"x">>

DigitValue == [d \in {"0", "1", "2", "3", "4", "5", "6", "7", "8", "9"} |->
                  CASE d = "0" -> 0 [] d = "1" -> 1 [] d = "2" -> 2 [] d = "3" -> 3
                    [] d = "4" -> 4 [] d = "5" -> 5 [] d = "6" -> 6 [] d = "7" -> 7
                    [] d = "8" -> 8 [] d = "9" -> 9]

\* float(val) succeeds (on the unsigned decimal numerals the model draws)
IsNumeral(s) == s # <<>> /\ \A i \in 1..Len(s) : s[i] \in DOMAIN DigitValue

RECURSIVE ToFloat(_)
ToFloat(s) ==
    IF s = <<>> THEN 0
    ELSE 10 * ToFloat(SubSeq(s, 1, Len(s) - 1)) + DigitValue[s[Len(s)]]

\* the decimal digit of a number below ten
DigitOf == [k \in 0..9 |-> CHOOSE d \in DOMAIN DigitValue : DigitValue[d] = k]

\* a loop over the features that keeps the last one it cannot use
last_bad_field(form) ==
    LET bad == {i \in 1..Len(FEATURE_NAMES) :
                   form[i] = NoneV \/ form[i] = Empty \/ ~IsNumeral(form[i])}
    IN  IF bad = {} THEN 0 ELSE CHOOSE i \in bad : \A j \in bad : i >= j

\* The loop over FEATURE_NAMES in patient_predict: the first field that is
\* missing, or that float() rejects, ends it
FirstBadField(form) ==
    LET bad == {i \in 1..Len(FEATURE_NAMES) :
                   form[i] = NoneV \/ form[i] = Empty \/ ~IsNumeral(form[i])}
    IN  IF bad = {} THEN 0 ELSE CHOOSE i \in bad : \A j \in bad : i <= j

IsMissing(v) == v = NoneV \/ v = Empty

features_input(form) == [i \in 1..Len(FEATURE_NAMES) |-> ToFloat(form[i])]

---------------------------------------------------------------------------
(* The predictions table (assessments collection) and its queries *)

PredIds == 1..Len(predictions)

\* ORDER BY created_at DESC / sort('created_at', -1), no second key.  Every
\* order of the rows of S that is descending in created_at; among rows of
\* equal created_at sqlite's sorter keeps the scan's rowid order, and
\* mongodb may return them in any order
Orderings(S) ==
    {o \in [1..Cardinality(S) -> S] :
        \A i, j \in 1..Cardinality(S) :
            i < j => /\ o[i] # o[j]
                     /\ predictions[o[i]].created_at >= predictions[o[j]].created_at
                     /\ (/\ variant = "sqlite"
                         /\ predictions[o[i]].created_at = predictions[o[j]].created_at)
                            => o[i] < o[j]}

PatientRow(i) ==
    [id |-> i, probability |-> predictions[i].probability,
     risk_category |-> predictions[i].risk_category,
     created_at |-> predictions[i].created_at,
     age |-> predictions[i].features[1],
     ejection_fraction |-> predictions[i].features[2]]

\* the username the listing shows beside a row
OwnerName(i) ==
    IF predictions[i].user_id \in UserIds
    THEN users[predictions[i].user_id].username
    ELSE <<"Unknown">>

JoinedRow(i) ==
    [id |-> i, user_id |-> predictions[i].user_id, username |-> OwnerName(i),
     features |-> predictions[i].features,
     probability |-> predictions[i].probability,
     risk_category |-> predictions[i].risk_category,
     created_at |-> predictions[i].created_at]

\* the rows a query returns, given the ids it selects and the row it makes
\* of each stored row
Results(S, row) ==
    IF ~dbUp THEN {<<>>}
    ELSE {[k \in 1..Cardinality(S) |-> row[o[k]]] : o \in Orderings(S)}

\* a selection without the WHERE user_id = ? clause
all_rows_selected(user_id) == PredIds

\* get_patient_predictions / get_patient_assessments:
\* SELECT * FROM predictions WHERE user_id = ? ORDER BY created_at DESC
PatientSelection(user_id) == {i \in PredIds : predictions[i].user_id = user_id}

get_patient_predictions(user_id) ==
    Results(PatientSelection(user_id), [i \in PredIds |-> PatientRow(i)])

\* FROM predictions p JOIN users u ON p.user_id = u.id (sqlite);
\* find() with a find_one per row for the username (mongodb)
Joined == {i \in PredIds : variant = "sqlite" => predictions[i].user_id \in UserIds}

\* get_all_predictions / get_all_assessments
get_all_predictions == Results(Joined, [i \in PredIds |-> JoinedRow(i)])

LowerChar(ch) ==
    IF ch = "A" THEN "a" ELSE IF ch = "B" THEN "b" ELSE IF ch = "M" THEN "m"
    ELSE IF ch = "O" THEN "o" ELSE IF ch = "Y" THEN "y" ELSE ch

\* str.lower(), and the case folding of sqlite's LIKE
Lower(s) == [i \in 1..Len(s) |-> LowerChar(s[i])]

\* sub in s
Contains(sub, s) ==
    \E k \in 0..(Len(s) - Len(sub)) : SubSeq(s, k + 1, k + Len(sub)) = sub

\* u.username LIKE '%username%' / username.lower() in uname.lower()
UsernameMatches(username, i) == Contains(Lower(username), Lower(OwnerName(i)))

\* the characters of a timestamp in their collating order
CharRank == [ch \in {" ", "0", "1", "2", "3", "4", "5", "6", "7", "8", "9"} |->
                IF ch = " " THEN 0 ELSE 1 + DigitValue[ch]]

\* a <= b between two TEXT values (sqlite's BINARY collation)
RECURSIVE TextLeq(_, _)
TextLeq(a, b) ==
    IF a = <<>> THEN TRUE
    ELSE IF b = <<>> THEN FALSE
    ELSE IF a[1] = b[1] THEN TextLeq(Tail(a), Tail(b))
    ELSE CharRank[a[1]] < CharRank[b[1]]

\* the day a date input names, 'YYYY-MM-DD'; the model's clock runs within
\* the day "1"
Day(d) == <<DigitOf[d]>>

\* CURRENT_TIMESTAMP as the created_at column holds it, 'YYYY-MM-DD HH:MM:SS'
Stamp(k) == <<"1", " ", DigitOf[k]>>

\* the date-range conditions on one row.  sqlite: p.created_at >= ? and
\* p.created_at <= ? between the column's text and the argument's text.
\* mongodb: $gte / $lte with the request's string against a stored
\* datetime, and a comparison operator matches only values of the query
\* value's own type
DateMatches(start_date, end_date, i) ==
    IF variant = "sqlite"
    THEN /\ (start_date # NoneV /\ start_date # Empty)
                => TextLeq(start_date, Stamp(predictions[i].created_at))
         /\ (end_date # NoneV /\ end_date # Empty)
                => TextLeq(Stamp(predictions[i].created_at), end_date)
    ELSE /\ start_date \in {NoneV, Empty}
         /\ end_date \in {NoneV, Empty}

\* the WHERE clause of get_predictions_filtered and get_predictions_paginated
\* (the filter_query and the username test of get_assessments_*): None or ''
\* leaves a filter out; risk is "None", "" or the category asked for
FilteredSelection(risk, username, start_date, end_date) ==
    {i \in Joined :
        /\ (risk # "None" /\ risk # "") => predictions[i].risk_category = risk
        /\ (username # NoneV /\ username # Empty) => UsernameMatches(username, i)
        /\ DateMatches(start_date, end_date, i)}

get_predictions_filtered(risk, username, start_date, end_date) ==
    Results(FilteredSelection(risk, username, start_date, end_date),
            [i \in PredIds |-> JoinedRow(i)])

\* int(page), int(per_page) on what the query string carries
IsInt(s) ==
    \/ IsNumeral(s)
    \/ Len(s) > 1 /\ s[1] = "-" /\ IsNumeral(Tail(s))

ToInt(s) == IF s[1] = "-" THEN 0 - ToFloat(Tail(s)) ELSE ToFloat(s)

\* the page and page size get_predictions_paginated works with.  One try
\* block converts both, so either failing resets both; sqlite then raises a
\* page below 1 to 1 and a page size below 1 to 10, mongodb takes
\* max(1, int(page)) and max(1, int(per_page))
PageParams(page, per_page) ==
    IF ~(IsInt(page) /\ IsInt(per_page))
    THEN [page |-> 1, per_page |-> DefaultPerPage]
    ELSE [page |-> IF ToInt(page) < 1 THEN 1 ELSE ToInt(page),
          per_page |-> IF ToInt(per_page) >= 1 THEN ToInt(per_page)
                       ELSE IF variant = "sqlite" THEN DefaultPerPage ELSE 1]

\* LIMIT per_page OFFSET (page - 1) * per_page / skip(skip).limit(per_page)
PageSlice(o, page, per_page) ==
    SubSeq(o, (page - 1) * per_page + 1,
           IF page * per_page < Len(o) THEN page * per_page ELSE Len(o))

\* get_predictions_paginated / get_assessments_paginated: the page's rows and
\* the total.  sqlite counts and pages the rows of the whole WHERE clause;
\* mongodb counts and pages the documents of filter_query (risk and dates)
\* and drops the rows of other usernames from the page it fetched
get_predictions_paginated(page, per_page, risk, username, start_date, end_date) ==
    LET pp == PageParams(page, per_page)
        paged == IF variant = "sqlite"
                 THEN FilteredSelection(risk, username, start_date, end_date)
                 ELSE FilteredSelection(risk, NoneV, start_date, end_date)
        kept == FilteredSelection(risk, username, start_date, end_date)
    IN  IF ~dbUp THEN {[predictions |-> <<>>, total |-> 0]}
        ELSE {[predictions |->
                   [k \in 1..Len(SelectSeq(PageSlice(o, pp.page, pp.per_page),
                                           LAMBDA i : i \in kept)) |->
                       JoinedRow(SelectSeq(PageSlice(o, pp.page, pp.per_page),
                                           LAMBDA i : i \in kept)[k])],
               total |-> Cardinality(paged)] : o \in Orderings(paged)}

\* get_all_patients: the patients with their prediction counts
get_all_patients ==
    IF ~dbUp THEN {}
    ELSE {[id |-> i, username |-> users[i].username, email |-> users[i].email,
           predictions_count |-> Cardinality(PatientSelection(i))] :
              i \in {j \in UserIds : users[j].role = "patient"}}

NewPrediction(user_id, features, probability, risk_category) ==
    [user_id |-> user_id, features |-> features, probability |-> probability,
     risk_category |-> risk_category, created_at |-> clock]

\* a save that inserts the row twice
save_prediction_twice(user_id, features, probability, risk_category) ==
    IF dbUp
    THEN Append(Append(predictions,
                       NewPrediction(user_id, features, probability, risk_category)),
                NewPrediction(user_id, features, probability, risk_category))
    ELSE predictions

\* a save that keeps one row per table: INSERT OR REPLACE
save_replacing_latest(user_id, features, probability, risk_category) ==
    IF ~dbUp THEN predictions
    ELSE IF predictions = <<>>
    THEN <<NewPrediction(user_id, features, probability, risk_category)>>
    ELSE [predictions EXCEPT ![Len(predictions)] =
             NewPrediction(user_id, features, probability, risk_category)]

\* a save whose INSERT goes through although the storage raised
save_despite_failure(user_id, features, probability, risk_category) ==
    Append(predictions,
           NewPrediction(user_id, features, probability, risk_category))

\* save_prediction / save_assessment: one INSERT; the table afterwards
save_prediction(user_id, features, probability, risk_category) ==
    IF dbUp
    THEN Append(predictions,
                NewPrediction(user_id, features, probability, risk_category))
    ELSE predictions

---------------------------------------------------------------------------
(* The protected routes.  A request carries the cookie `tok`; a response   *)
(* reaches the client's cookie jar only when the request came from it.     *)

Frame == <<variant, modelLoaded, dbUp, clock, users, session, discarded, reg, upd>>

\* GET /patient/dashboard
PatientDashboard(c, tok) ==
    /\ UNCHANGED <<log, job, profiles>>
    /\ upd[c].pc = "idle"
    /\ tok \in Presentable(c)
    /\ IF patient_required(tok)
       THEN /\ \E rows \in get_patient_predictions(tok.user_id) :
                   last' = Obs("patient_dashboard", c, tok, TRUE,
                               "patient_dashboard.html", rows)
            /\ UNCHANGED <<predictions, Frame>>
       ELSE Denied("patient_dashboard", c, tok)

PredictionData(probability, risk_category, saved) ==
    [probability |-> probability, pct |-> RoundPct(probability),
     risk_category |-> risk_category, risk_color |-> risk_color(risk_category),
     recommendation |-> get_recommendation(risk_category), saved |-> saved]

\* POST /patient/predict; `probability` is what model.predict_proba answers
PatientPredict(c, tok, form, probability) ==
    /\ UNCHANGED <<log, job, profiles>>
    /\ upd[c].pc = "idle"
    /\ tok \in Presentable(c)
    /\ IF patient_required(tok)
       THEN LET bad == FirstBadField(form)
                risk_category == get_risk_category(probability)
            IN  IF ~modelLoaded
                THEN /\ last' = Obs("patient_predict", c, tok, TRUE,
                                    "predict.html: Model not loaded", NoData)
                     /\ UNCHANGED <<predictions, Frame>>
                ELSE IF bad # 0
                THEN /\ last' = Obs("patient_predict", c, tok, TRUE,
                                    IF IsMissing(form[bad])
                                    THEN "predict.html: Missing " \o FEATURE_NAMES[bad]
                                    ELSE "predict.html: Prediction error", NoData)
                     /\ UNCHANGED <<predictions, Frame>>
                ELSE /\ predictions' = save_prediction(tok.user_id, features_input(form),
                                                       probability, risk_category)
                     /\ last' = Obs("patient_predict", c, tok, TRUE,
                                    "prediction_result.html",
                                    PredictionData(probability, risk_category, dbUp))
                     /\ UNCHANGED Frame
       ELSE Denied("patient_predict", c, tok)

\* GET /doctor/dashboard
DoctorDashboard(c, tok) ==
    /\ UNCHANGED <<log, job, profiles>>
    /\ upd[c].pc = "idle"
    /\ tok \in Presentable(c)
    /\ IF doctor_required(tok)
       THEN /\ last' = Obs("doctor_dashboard", c, tok, TRUE,
                           "doctor_dashboard.html", get_all_patients)
            /\ UNCHANGED <<predictions, Frame>>
       ELSE Denied("doctor_dashboard", c, tok)

\* GET /doctor/predictions.csv (/doctor/assessments.csv): the rows of
\* get_predictions_filtered, one CSV line each
DoctorPredictionsCsv(c, tok, risk, username, start_date, end_date) ==
    /\ UNCHANGED <<log, job, profiles>>
    /\ upd[c].pc = "idle"
    /\ tok \in Presentable(c)
    /\ IF doctor_required(tok)
       THEN /\ \E rows \in get_predictions_filtered(risk, username,
                                                       start_date, end_date) :
                   last' = Obs("doctor_predictions_csv", c, tok, TRUE,
                               "patient_assessments.csv", rows)
            /\ UNCHANGED <<predictions, Frame>>
       ELSE Denied("doctor_predictions_csv", c, tok)

\* a // b of Python, for a divisor that is not 0
FloorDiv(a, b) == IF b > 0 THEN a \div b ELSE (0 - a) \div (0 - b)

\* GET /doctor/predictions (/doctor/assessments).  page and per_page are the
\* query string's text, None when absent; the route converts them again,
\* without the query's lower bounds, for the page count it reports, and a
\* page size of 0 makes that division raise
DoctorPredictions(c, tok, page, per_page, risk, username, start_date, end_date) ==
    /\ UNCHANGED <<log, job, profiles>>
    /\ upd[c].pc = "idle"
    /\ tok \in Presentable(c)
    /\ IF doctor_required(tok)
       THEN LET page_arg == IF page = NoneV THEN <<"1">> ELSE page
                per_page_arg == IF per_page = NoneV THEN <<"1", "0">> ELSE per_page
                shown == IF IsInt(page_arg) /\ IsInt(per_page_arg)
                         THEN [page |-> ToInt(page_arg), per_page |-> ToInt(per_page_arg)]
                         ELSE [page |-> 1, per_page |-> DefaultPerPage]
            IN  /\ \E data \in get_predictions_paginated(page_arg, per_page_arg, risk,
                                                          username, start_date, end_date) :
                       last' = IF shown.per_page = 0
                               THEN Obs("doctor_predictions", c, tok, TRUE,
                                        "500 Internal Server Error", NoData)
                               ELSE Obs("doctor_predictions", c, tok, TRUE, "json",
                                        [predictions |-> data.predictions,
                                         total |-> data.total,
                                         page |-> shown.page,
                                         per_page |-> shown.per_page,
                                         total_pages |->
                                             IF FloorDiv(data.total + shown.per_page - 1,
                                                         shown.per_page) < 1
                                             THEN 1
                                             ELSE FloorDiv(data.total + shown.per_page - 1,
                                                           shown.per_page)])
                /\ UNCHANGED <<predictions, Frame>>
       ELSE Denied("doctor_predictions", c, tok)

\* GET /profile
Profile(c, tok, json) ==
    /\ UNCHANGED <<log, job, profiles>>
    /\ upd[c].pc = "idle"
    /\ tok \in Presentable(c)
    /\ IF login_required(tok)
       THEN /\ last' =
                 IF ~dbUp
                 THEN Obs("profile", c, tok, TRUE,
                          IF variant = "sqlite" THEN "redirect: login"
                          ELSE "redirect: logout", NoData)
                 ELSE IF tok.user_id \notin UserIds
                 THEN Obs("profile", c, tok, TRUE, "redirect: logout", NoData)
                 ELSE Obs("profile", c, tok, TRUE,
                          IF json THEN "json: user" ELSE "profile.html",
                          IF json
                          THEN [id |-> tok.user_id,
                                username |-> users[tok.user_id].username,
                                email |-> users[tok.user_id].email,
                                role |-> users[tok.user_id].role]
                          ELSE [username |-> tok.username])
            /\ UNCHANGED <<predictions, Frame>>
       ELSE Denied("profile", c, tok)

---------------------------------------------------------------------------
(* POST /profile/update *)

IdleUpd == [pc |-> "idle", token |-> EmptySession, username |-> NoneV,
            email |-> NoneV, password |-> Empty]

Truthy(v) == v # NoneV /\ v # Empty

\* How the route reads the submitted fields.  app_sqlite_old strips the
\* username only; app_mongodb strips the username and both passwords.
FieldUsername(v) ==
    IF variant = "sqlite"
    THEN IF v # NoneV THEN Strip(v) ELSE NoneV
    ELSE IF Truthy(v) THEN Strip(v) ELSE NoneV

FieldPassword(v) ==
    IF v = NoneV THEN Empty
    ELSE IF variant = "sqlite" THEN v ELSE Strip(v)

\* The route's own validation: the message of the 400 response, or "ok"
ProfileValidation(new_username, new_password, confirm_password) ==
    IF new_password # Empty /\ Len(new_password) < MinPasswordLen
    THEN "Password must be at least 6 characters"
    ELSE IF new_password # Empty /\ new_password # confirm_password
    THEN "Passwords do not match"
    ELSE IF Truthy(new_username) /\ Len(new_username) < MinUsernameLen
    THEN "Username must be at least 3 characters"
    ELSE "ok"

\* update_user_profile up to its UPDATE: the uniqueness look-ups (and, in
\* app_mongodb, the length checks); "write" when it goes on to the UPDATE
ProfileCheck(user_id, new_username, new_email, new_password) ==
    IF ~dbUp THEN "storage unavailable"
    ELSE IF Truthy(new_username) /\ UsersNamed(new_username) \ {user_id} # {}
    THEN "Username already taken"
    ELSE IF variant = "mongodb" /\ Truthy(new_email)
            /\ UsersWithEmail(new_email) \ {user_id} # {}
    THEN "Email already taken"
    ELSE IF variant = "mongodb" /\ Truthy(new_username)
            /\ Len(new_username) < MinUsernameLen
    THEN "Username must be at least 3 characters"
    ELSE IF variant = "mongodb" /\ Truthy(new_password)
            /\ Len(new_password) < MinPasswordLen
    THEN "Password must be at least 6 characters"
    ELSE IF ~Truthy(new_username) /\ new_email = NoneV /\ ~Truthy(new_password)
    THEN "No changes"
    ELSE "write"

\* an UPDATE that sets the e-mail column whether or not one was supplied
update_setting_every_column(row, new_username, new_email, new_password) ==
    [username |-> IF Truthy(new_username) THEN new_username ELSE row.username,
     email |-> new_email,
     password_hash |-> IF Truthy(new_password)
                       THEN generate_password_hash(new_password)
                       ELSE row.password_hash,
     role |-> row.role]

\* the row the UPDATE leaves
UpdatedUser(row, new_username, new_email, new_password) ==
    [username |-> IF Truthy(new_username) THEN new_username ELSE row.username,
     email |-> IF new_email # NoneV THEN new_email ELSE row.email,
     password_hash |-> IF Truthy(new_password)
                       THEN generate_password_hash(new_password)
                       ELSE row.password_hash,
     role |-> row.role]

\* the handler up to the UPDATE statement
ProfileUpdateCheck(c, tok, data) ==
    /\ UNCHANGED <<log, job, profiles>>
    /\ upd[c].pc = "idle"
    /\ tok \in Presentable(c)
    /\ IF login_required(tok)
       THEN LET new_username == FieldUsername(data.username)
                new_password == FieldPassword(data.password)
                confirm_password == FieldPassword(data.confirm_password)
                invalid == ProfileValidation(new_username, new_password,
                                             confirm_password)
                check == ProfileCheck(tok.user_id, new_username, data.email,
                                      new_password)
            IN  IF invalid # "ok"
                THEN /\ last' = Obs("profile_update", c, tok, TRUE,
                                    "400: " \o invalid, [success |-> FALSE])
                     /\ UNCHANGED <<predictions, Frame>>
                ELSE IF check = "No changes"
                THEN /\ last' = Obs("profile_update", c, tok, TRUE,
                                    "200: No changes", [success |-> TRUE])
                     /\ session' = [session EXCEPT ![c] =
                           IF tok = session[c] /\ Truthy(new_username)
                           THEN [tok EXCEPT !.username = new_username]
                           ELSE session[c]]
                     /\ UNCHANGED <<variant, modelLoaded, dbUp, clock, users,
                                    predictions, discarded, reg, upd>>
                ELSE IF check # "write"
                THEN /\ last' = Obs("profile_update", c, tok, TRUE,
                                    "400: " \o check, [success |-> FALSE])
                     /\ UNCHANGED <<predictions, Frame>>
                ELSE /\ upd' = [upd EXCEPT ![c] =
                           [pc |-> "write", token |-> tok,
                            username |-> new_username, email |-> data.email,
                            password |-> new_password]]
                     /\ UNCHANGED <<variant, modelLoaded, dbUp, clock, users,
                                    predictions, session, discarded, reg, last>>
       ELSE Denied("profile_update", c, tok)

\* the UPDATE statement, under the storage layer's uniqueness rule, and the
\* rest of the handler
ProfileUpdateWrite(c) ==
    /\ UNCHANGED <<log, job, profiles>>
    /\ upd[c].pc = "write"
    /\ LET tok == upd[c].token
           uid == tok.user_id
           row == UpdatedUser(users[uid], upd[c].username, upd[c].email,
                              upd[c].password)
       IN  IF ~dbUp
           THEN /\ last' = Obs("profile_update", c, tok, TRUE,
                               "400: storage unavailable", [success |-> FALSE])
                /\ UNCHANGED <<users, session>>
           ELSE IF UniqueViolation(row, uid)
           THEN /\ last' = Obs("profile_update", c, tok, TRUE,
                               "400: unique constraint failed", [success |-> FALSE])
                /\ UNCHANGED <<users, session>>
           ELSE /\ users' = [users EXCEPT ![uid] = row]
                /\ session' = [session EXCEPT ![c] =
                      IF tok = session[c] /\ Truthy(upd[c].username)
                      THEN [tok EXCEPT !.username = upd[c].username]
                      ELSE session[c]]
                /\ last' = Obs("profile_update", c, tok, TRUE,
                               "200: Profile updated", [success |-> TRUE])
    /\ upd' = [upd EXCEPT ![c] = IdleUpd]
    /\ UNCHANGED <<variant, modelLoaded, dbUp, clock, predictions, discarded, reg>>

---------------------------------------------------------------------------
(* The single-role application (app_old.py): its own login, the form and    *)
(* JSON prediction routes, and predictions.csv, the log every prediction is *)
(* appended to.  log_prediction reads the whole file and writes it back,    *)
(* and another request can run between the two.                             *)

\* POST /login of app_old: the session gets user_id and the username typed
LoginOld(c, rawUsername, rawPassword) ==
    /\ job[c].pc = "idle"
    /\ LET username == Strip(rawUsername)
           password == Strip(rawPassword)
           res == login_user(username, password)
       IN  IF username = Empty \/ password = Empty
           THEN /\ last' = Obs("login", c, session[c], TRUE,
                               "login.html: Username and password required", NoData)
                /\ UNCHANGED session
           ELSE IF res.ok
           THEN /\ session' = [session EXCEPT ![c] =
                                   [user_id |-> res.info.user_id, role |-> "none",
                                    username |-> username]]
                /\ last' = Obs("login", c, session[c], TRUE, "redirect: home", NoData)
           ELSE /\ last' = Obs("login", c, session[c], TRUE,
                               "login.html: Invalid username or password", NoData)
                /\ UNCHANGED session
    /\ UNCHANGED <<variant, modelLoaded, dbUp, clock, users, predictions,
                   discarded, reg, upd, log, job, profiles>>

\* the first feature the loop of api_predict stops at: a key that is not in
\* the JSON object, or a value float() rejects
FirstBadKey(body) ==
    LET bad == {i \in 1..Len(FEATURE_NAMES) : body[i] = NoneV \/ ~IsNumeral(body[i])}
    IN  IF bad = {} THEN 0 ELSE CHOOSE i \in bad : \A j \in bad : i <= j

\* the record log_prediction makes
new_record(input_data, probability, risk_category) ==
    [timestamp |-> clock, probability |-> RoundPct(probability),
     risk_category |-> risk_category, features |-> input_data]

\* what the result page and the JSON answer carry
OldResult(probability) ==
    [probability |-> RoundPct(probability),
     risk_category |-> get_risk_category_old(probability),
     risk_color |-> risk_color(get_risk_category_old(probability)),
     recommendation |-> get_recommendation(get_risk_category_old(probability))]

\* a request that ends before the classifier is called
OldRefused(op, c, tok, invoked, resp) ==
    /\ last' = Obs(op, c, tok, invoked, resp, NoData)
    /\ UNCHANGED <<variant, modelLoaded, dbUp, clock, users, predictions,
                   session, discarded, reg, upd, log, job, profiles>>

\* scaler.transform, model.predict_proba, get_risk_category and
\* log_prediction as far as pd.read_csv (or the finding that there is no
\* file yet)
OldClassify(op, c, tok, input, probability) ==
    /\ job' = [job EXCEPT ![c] =
                  [pc |-> "write", token |-> tok, df |-> log,
                   record |-> [op |-> op, probability |-> probability,
                               row |-> new_record(features_input(input), probability,
                                                  get_risk_category_old(probability))]]]
    /\ UNCHANGED <<variant, modelLoaded, dbUp, clock, users, predictions,
                   session, discarded, reg, upd, last, log, profiles>>

\* POST /predict of app_old, up to the read of the log file
OldPredict(c, tok, form, probability) ==
    /\ job[c].pc = "idle"
    /\ tok \in Presentable(c)
    /\ IF ~login_required(tok)
       THEN OldRefused("predict", c, tok, FALSE, "redirect: login")
       ELSE IF ~modelLoaded
       THEN OldRefused("predict", c, tok, TRUE, "result.html: Model not loaded")
       ELSE IF FirstBadField(form) # 0
       THEN OldRefused("predict", c, tok, TRUE,
                       IF IsMissing(form[FirstBadField(form)])
                       THEN "result.html: Missing input for "
                                \o FEATURE_NAMES[FirstBadField(form)]
                       ELSE "result.html: Invalid input")
       ELSE OldClassify("predict", c, tok, form, probability)

\* POST /api/predict of app_old, up to the read of the log file; a key the
\* JSON object does not have is None here
ApiPredict(c, tok, body, probability) ==
    /\ job[c].pc = "idle"
    /\ tok \in Presentable(c)
    /\ IF ~login_required(tok)
       THEN OldRefused("api_predict", c, tok, FALSE, "redirect: login")
       ELSE IF ~modelLoaded
       THEN OldRefused("api_predict", c, tok, TRUE, "500: Model not loaded")
       ELSE IF FirstBadKey(body) # 0
       THEN OldRefused("api_predict", c, tok, TRUE,
                       IF body[FirstBadKey(body)] = NoneV
                       THEN "400: Missing feature: " \o FEATURE_NAMES[FirstBadKey(body)]
                       ELSE "400: could not convert string to float")
       ELSE OldClassify("api_predict", c, tok, body, probability)

\* df.to_csv of log_prediction and the rest of either prediction handler
LogWrite(c) ==
    /\ job[c].pc = "write"
    /\ log' = Append(job[c].df, job[c].record.row)
    /\ last' = Obs(job[c].record.op, c, job[c].token, TRUE,
                   IF job[c].record.op = "predict" THEN "result.html" ELSE "200",
                   OldResult(job[c].record.probability))
    /\ job' = [job EXCEPT ![c] = IdleJob]
    /\ UNCHANGED <<variant, modelLoaded, dbUp, clock, users, predictions,
                   session, discarded, reg, upd, profiles>>

\* df.tail(100)
LastRecords(df) ==
    SubSeq(df, IF Len(df) > LogTail THEN Len(df) - LogTail + 1 ELSE 1, Len(df))

\* GET /api/predictions-log: the route has no decorator
get_predictions_log(c, tok) ==
    /\ job[c].pc = "idle"
    /\ tok \in Presentable(c)
    /\ last' = Obs("predictions_log", c, tok, TRUE, "200", LastRecords(log))
    /\ UNCHANGED <<variant, modelLoaded, dbUp, clock, users, predictions,
                   session, discarded, reg, upd, log, job, profiles>>

---------------------------------------------------------------------------
(* The environment *)

\* time passes between two requests
Tick ==
    /\ UNCHANGED <<log, job, profiles>>
    /\ clock < MaxClock
    /\ clock' = clock + 1
    /\ UNCHANGED <<variant, modelLoaded, dbUp, users, predictions, session,
                   discarded, reg, upd, last>>

\* the storage backend stops answering / answers again
DbFail ==
    /\ UNCHANGED <<log, job, profiles>>
    /\ dbUp
    /\ dbUp' = FALSE
    /\ UNCHANGED <<variant, modelLoaded, clock, users, predictions, session,
                   discarded, reg, upd, last>>

DbRecover ==
    /\ UNCHANGED <<log, job, profiles>>
    /\ ~dbUp
    /\ dbUp' = TRUE
    /\ UNCHANGED <<variant, modelLoaded, clock, users, predictions, session,
                   discarded, reg, upd, last>>

---------------------------------------------------------------------------
(* What the requests submit *)

FormRoles == {"patient", "doctor"}
RiskFilters == {"None", "HIGH"}
NameFilters == {NoneV, <<"B", "o">>}

NoObs == Obs("none", "none", EmptySession, FALSE, "none", NoData)

User(username, email, password, role) ==
    [username |-> username, email |-> email,
     password_hash |-> generate_password_hash(password), role |-> role]

\* The state after start-up, with the users table as earlier registrations
\* left it
InitWith(stores, loaded) ==
    /\ variant \in Variants
    /\ modelLoaded \in loaded
    /\ dbUp = TRUE
    /\ clock = 0
    /\ users \in stores
    /\ predictions = <<>>
    /\ session = [c \in Clients |-> EmptySession]
    /\ discarded = [c \in Clients |-> EmptySession]
    /\ reg = [r \in RegRequests |-> IdleReg]
    /\ upd = [c \in Clients |-> IdleUpd]
    /\ last = NoObs
    /\ log = <<>>
    /\ job = [c \in Clients |-> IdleJob]
    /\ profiles = IF variant = "mongodb"
                  THEN [i \in DOMAIN users |-> profile_doc(i, users[i].role)]
                  ELSE <<>>

\* a fresh database, the model files found
Init == InitWith({<<>>}, {TRUE})

Register(R, Roles, U, E, P) ==
    \/ \E r \in R, role \in Roles, u \in U, e \in E, p \in P :
           \E cf \in {p, Hunter2} : RegisterCheck(r, role, u, e, p, cf)
    \/ \E r \in R : RegisterInsert(r)

Authenticate(C, U, P) ==
    \/ \E c \in C, u \in U, p \in P : Login(c, u, p)
    \/ \E c \in C : Logout(c)

Browse(C, RF, NF, DF, J) ==
    \/ \E c \in C : \E tok \in Presentable(c) : PatientDashboard(c, tok)
    \/ \E c \in C : \E tok \in Presentable(c) : DoctorDashboard(c, tok)
    \/ \E c \in C, risk \in RF, name \in NF, start_date \in DF, end_date \in DF :
           \E tok \in Presentable(c) :
               DoctorPredictionsCsv(c, tok, risk, name, start_date, end_date)
    \/ \E c \in C, json \in J :
           \E tok \in Presentable(c) : Profile(c, tok, json)

Paginate(C, Pg, Pp, RF, NF, DF) ==
    \E c \in C, page \in Pg, per_page \in Pp, risk \in RF, name \in NF,
       start_date \in DF, end_date \in DF :
        \E tok \in Presentable(c) :
            DoctorPredictions(c, tok, page, per_page, risk, name, start_date, end_date)

\* the single-role application's requests; at most N records are logged
SingleRole(C, U, P, F, Pr, N) ==
    \/ \E c \in C, u \in U, p \in P : LoginOld(c, u, p)
    \/ /\ Len(log) < N
       /\ \E c \in C, form \in F, probability \in Pr :
              \E tok \in Presentable(c) : OldPredict(c, tok, form, probability)
    \/ /\ Len(log) < N
       /\ \E c \in C, body \in F, probability \in Pr :
              \E tok \in Presentable(c) : ApiPredict(c, tok, body, probability)
    \/ \E c \in C : LogWrite(c)
    \/ \E c \in C : \E tok \in Presentable(c) : get_predictions_log(c, tok)

\* at most N assessments are stored
Predict(C, F, Pr, N) ==
    /\ dbUp => Len(predictions) < N
    /\ \E c \in C, form \in F, probability \in Pr :
           \E tok \in Presentable(c) : PatientPredict(c, tok, form, probability)

UpdateProfile(C, D) ==
    \/ \E c \in C, data \in D :
           \E tok \in Presentable(c) : ProfileUpdateCheck(c, tok, data)
    \/ \E c \in C : ProfileUpdateWrite(c)

\* Every operation of the application, one client and one registration at a
\* time
Next ==
    \/ Register({"r1"}, {"doctor"}, {Amy}, {MailB}, {Secret1})
    \/ Authenticate({"c1"}, {Bob, Amy}, {Secret1})
    \/ Browse({"c1"}, RiskFilters, NameFilters, {NoneV}, BOOLEAN)
    \/ Paginate({"c1"}, {NoneV}, {NoneV}, {"None"}, {NoneV}, {NoneV})
    \/ Predict({"c1"}, {<<Num55, Num55>>}, {33000, 67000}, MaxPredictions)
    \/ UpdateProfile({"c1"}, [username : {NoneV, Al \o Amy}, email : {NoneV},
                               password : {NoneV, Hunter2},
                               confirm_password : {Hunter2}])

Spec == InitWith({<<User(Bob, MailA, Secret1, "patient")>>}, {TRUE}) /\ [][Next]_vars

\* the routes behind login_required, patient_required and doctor_required
PatientOps == {"patient_dashboard", "patient_predict"}
DoctorOps == {"doctor_dashboard", "doctor_predictions", "doctor_predictions_csv"}
LoginOps == {"profile", "profile_update"}
ProtectedOps == PatientOps \cup DoctorOps \cup LoginOps

\* what the claim requires of the cookie `tok` for route `op`
Entitled(op, tok) ==
    /\ tok.user_id # 0
    /\ op \in PatientOps => tok.role = "patient"
    /\ op \in DoctorOps => tok.role = "doctor"

\* C1: for every route wrapped by login_required, patient_required or
\* doctor_required and every session, the handler body runs only if the
\* session holds a user_id and, for the role decorators, the required role;
\* otherwise the handler is not invoked, no stored user or assessment
\* changes, and the response is the redirect to login - the same for a wrong
\* role as for no session.
DecoratorsGateHandlers ==
    [][(last' # last /\ last'.op \in ProtectedOps) =>
          /\ last'.invoked => Entitled(last'.op, last'.token)
          /\ ~Entitled(last'.op, last'.token) =>
                /\ ~last'.invoked
                /\ last'.resp = "redirect: login"
                /\ last'.data = NoData
                /\ users' = users
                /\ predictions' = predictions
      ]_vars

\* a doctor's session was turned away from a patient route
WrongRoleRedirected ==
    /\ last.op = "patient_predict"
    /\ last.token.role = "doctor"
    /\ ~last.invoked
    /\ last.resp = "redirect: login"

\* C7 as stated: after GET /logout, a request that presents the token the
\* preceding login issued is treated as unauthenticated by every protected
\* route, until a new successful login.
LoggedOutTokenRejected ==
    \A c \in Clients :
        (/\ HasUserId(discarded[c])
         /\ last.client = c
         /\ last.op \in ProtectedOps
         /\ last.token = discarded[c])
        => ~last.invoked

\* C7, amended: logout empties the cookie jar of the client that made the
\* request, so until a new login every protected route treats requests from
\* that jar as unauthenticated; the server keeps no record of the tokens it
\* issued, and a retained copy of the old token still opens the routes of
\* its role.
LogoutEmptiesCookieJar ==
    \A c \in Clients :
        HasUserId(discarded[c]) =>
            /\ session[c] = EmptySession
            /\ (last.client = c /\ last.op \in ProtectedOps) =>
                  /\ last.token = session[c] =>
                        ~last.invoked /\ last.resp = "redirect: login"
                  /\ (last.token = discarded[c]
                      /\ Entitled(last.op, last.token)) => last.invoked

\* after a logout, a request from the emptied jar was redirected to login
JarRequestRedirectedAfterLogout ==
    \E c \in Clients :
        /\ HasUserId(discarded[c])
        /\ last.client = c
        /\ last.op = "patient_dashboard"
        /\ last.token = EmptySession
        /\ ~last.invoked

\* C10: assessments are append-only: across register, login, logout,
\* predict, profile update, the patient and doctor listings and the CSV
\* export, a stored assessment is never modified or removed; the stored set
\* only grows and every field of an existing row keeps its value.
AssessmentsAppendOnly ==
    [][/\ Len(predictions') >= Len(predictions)
       /\ \A i \in PredIds : predictions'[i] = predictions[i]
      ]_vars

\* with two assessments stored, their owner renamed the account
ProfileUpdatedWithAssessmentsStored ==
    /\ Len(predictions) = 2
    /\ last.op = "profile_update"
    /\ last.resp = "200: Profile updated"
    /\ \E i \in PredIds : predictions[i].user_id = last.token.user_id

---------------------------------------------------------------------------
(* get_risk_category on its own: every variant applied to one probability *)

\* a grid over [0, 1] and the neighbours of the two thresholds
RiskInputs ==
    {k * 1000 : k \in 0..100} \cup {32999, 33001, 66999, 67001}

ApplyRiskCategory(probability) ==
    /\ UNCHANGED <<log, job, profiles>>
    /\ last' = Obs("get_risk_category", "none", EmptySession, TRUE, "none",
                   [probability |-> probability,
                    sqlite |-> get_risk_category_sqlite(probability),
                    mongodb |-> get_risk_category_mongodb(probability),
                    v2 |-> get_risk_category_v2(probability),
                    old |-> get_risk_category_old(probability),
                    running |-> get_risk_category(probability)])
    /\ UNCHANGED <<variant, modelLoaded, dbUp, clock, users, predictions,
                   session, discarded, reg, upd>>

NextRisk == \E probability \in RiskInputs : ApplyRiskCategory(probability)

SpecRisk == Init /\ [][NextRisk]_vars

\* C8: for every probability p in [0, 1] each variant's get_risk_category
\* returns exactly one of LOW, MEDIUM, HIGH: LOW exactly when p < 0.33,
\* MEDIUM exactly when 0.33 <= p < 0.67, HIGH exactly when p >= 0.67; so all
\* variants agree on every probability.
RiskCategoryThresholds ==
    last.op = "get_risk_category" =>
        LET p == last.data.probability
            expected == IF p < 33000 THEN "LOW"
                        ELSE IF p < 67000 THEN "MEDIUM" ELSE "HIGH"
        IN  /\ last.data.sqlite = expected
            /\ last.data.mongodb = expected
            /\ last.data.v2 = expected
            /\ last.data.old = expected
            /\ last.data.running = expected

\* the lower threshold itself is classified, as MEDIUM
RiskAtLowThreshold ==
    /\ last.op = "get_risk_category"
    /\ last.data.probability = 33000
    /\ last.data.sqlite = "MEDIUM"

---------------------------------------------------------------------------
(* Registration races: two registrations in flight at once, with a login   *)
(* and profile updates between their steps                                 *)

NextRace ==
    \/ Register({"r1", "r2"}, {"patient"}, {Bob, Amy}, {MailA, MailB}, {Secret1})
    \/ Authenticate({"c1"}, {Bob}, {Secret1})
    \/ UpdateProfile({"c1"}, [username : {NoneV, Amy}, email : {NoneV},
                               password : {NoneV}, confirm_password : {NoneV}])

SpecRace == Init /\ [][NextRace]_vars

\* C3: at every point in time, under any interleaving of registration and
\* profile-update requests (concurrent ones included), no two distinct users
\* in the store have the same username.
UniqueUsernames ==
    \A i, j \in UserIds : i # j => users[i].username # users[j].username

\* a request that had found its username free was stopped at the write,
\* because the name had been taken in between
WriteRejectedAsDuplicate ==
    \/ \E r \in RegRequests :
           /\ reg[r].pc = "done" /\ reg[r].checked /\ ~reg[r].ok
           /\ reg[r].message = DuplicateMessage
    \/ /\ last.op = "profile_update"
       /\ last.resp = "400: unique constraint failed"

\* 'already exists' in message
MentionsAlreadyExists(message) ==
    message \in {"Username already exists", "Username or email already exists"}

\* C4: when two register_user calls for the same unused username run
\* concurrently (both pass the existence check before either inserts) and
\* one of them succeeds, the other fails with the failure a sequential
\* duplicate registration gets: its message says 'already exists'.
ConcurrentDuplicateSaysAlreadyExists ==
    \A r1, r2 \in RegRequests :
        (/\ r1 # r2
         /\ reg[r1].pc = "done" /\ reg[r2].pc = "done"
         /\ reg[r1].username = reg[r2].username
         /\ reg[r1].checked /\ reg[r2].checked
         /\ reg[r1].ok)
        => /\ ~reg[r2].ok
           /\ MentionsAlreadyExists(reg[r2].message)

---------------------------------------------------------------------------
(* Logins against accounts that are registered and changed meanwhile       *)

LoginUsernames == {Bob, Amy, PadBob, Empty}
LoginPasswords == {Secret1, Hunter2, Empty}

NextLogin ==
    \/ Register({"r1"}, FormRoles, {Bob, Amy}, {MailA}, {Secret1, Pass})
    \/ Authenticate({"c1"}, LoginUsernames, LoginPasswords)
    \/ UpdateProfile({"c1"}, [username : {NoneV, Amy}, email : {NoneV},
                               password : {NoneV, Hunter2},
                               confirm_password : {Hunter2}])

SpecLogin == Init /\ [][NextLogin]_vars

\* the users whose stored hash is the hash of `password`
Matching(username, password) ==
    {i \in UserIds : /\ users[i].username = username
                     /\ users[i].password_hash = [digest |-> password]}

\* C5: login_user(username, password) succeeds if and only if a user with
\* that username exists and the password matches the hash stored for it
\* now; on success the user info is that user's id, username and role, and
\* the role is the one the registration gave (no operation changes it).
LoginIffCredentialsMatch ==
    [][/\ \A c \in Clients, u \in LoginUsernames, p \in LoginPasswords :
             (last'.op = "login" /\ Login(c, u, p) /\ last'.data.called) =>
                 LET m == Matching(Strip(u), Strip(p))
                     info == last'.data.info
                 IN  /\ last'.data.ok <=> m # {}
                     /\ last'.data.ok =>
                            /\ info.user_id \in m
                            /\ info.username = users[info.user_id].username
                            /\ info.role = users[info.user_id].role
       /\ \A i \in UserIds : i \in 1..Len(users') /\ users'[i].role = users[i].role
       /\ \A r \in RegRequests :
             (RegisterInsert(r) /\ reg'[r].ok) =>
                 /\ Len(users') = Len(users) + 1
                 /\ users'[Len(users')].role = reg[r].role
      ]_vars

\* a login succeeded with a password that a profile update had set
LoggedInWithChangedPassword ==
    /\ last.op = "login" /\ last.data.ok
    /\ last.data.info.user_id \in UserIds
    /\ users[last.data.info.user_id].password_hash = [digest |-> Hunter2]

\* C6: a failed login_user call has the same outcome whether the username
\* is unknown or the password is wrong: (False, None), the same message,
\* and the session left as it was.
FailedLoginsIndistinguishable ==
    [][\A c \in Clients, u \in LoginUsernames, p \in LoginPasswords :
          (last'.op = "login" /\ Login(c, u, p)
           /\ last'.data.called /\ ~last'.data.ok) =>
              /\ last'.data.info = NoInfo
              /\ last'.resp = "login.html: Invalid username or password"
              /\ session' = session
      ]_vars

\* both kinds of failure happened: here, a wrong password for a known user
WrongPasswordForKnownUser ==
    /\ last.op = "login" /\ last.data.called /\ ~last.data.ok
    /\ last.data.known

\* and an unknown username
UnknownUsernameRejected ==
    /\ last.op = "login" /\ last.data.called /\ ~last.data.ok
    /\ ~last.data.known

---------------------------------------------------------------------------
(* The assessment store: patients register, log in, submit forms and read  *)
(* their dashboards while time passes                                      *)

StoreForms == {<<Num55, Num55>>, <<Num55, Empty>>}
StoreProbs == {32999, 67000}

NextStore ==
    \/ Register({"r1"}, {"patient"}, {Amy}, {MailA, MailB}, {Secret1})
    \/ Authenticate({"c1"}, {Bob, Amy}, {Secret1})
    \/ \E tok \in Presentable("c1") : PatientDashboard("c1", tok)
    \/ Predict({"c1"}, StoreForms, StoreProbs, MaxPredictions)
    \/ Tick

SpecStore ==
    InitWith({<<User(Bob, MailA, Secret1, "patient")>>}, {TRUE})
        /\ [][NextStore]_vars

\* the ids of the rows a listing shows
ListedIds(rows) == {rows[k].id : k \in DOMAIN rows}

\* C2: after any sequence of registrations and saved predictions, with the
\* storage answering, get_patient_predictions(u) returns exactly the
\* assessments owned by u, each once, and never a row of another user; the
\* doctor queries get_all_predictions and get_predictions_filtered without a
\* filter return the assessments of all patients.
PatientDataIsolation ==
    /\ dbUp =>
          /\ \A u \in UserIds : \A rows \in get_patient_predictions(u) :
                /\ ListedIds(rows) = {i \in PredIds : predictions[i].user_id = u}
                /\ Len(rows) = Cardinality(ListedIds(rows))
          /\ \A rows \in get_all_predictions
                          \cup get_predictions_filtered("None", NoneV, NoneV, NoneV)
                          \cup get_predictions_filtered("", Empty, Empty, Empty) :
                /\ ListedIds(rows) = PredIds
                /\ Len(rows) = Len(predictions)
                /\ \A k \in DOMAIN rows :
                      rows[k].user_id = predictions[rows[k].id].user_id
    /\ (last.op = "patient_dashboard" /\ last.invoked) =>
          \A k \in DOMAIN last.data :
              predictions[last.data[k].id].user_id = last.token.user_id

\* a patient's dashboard listed that patient's rows while the store also
\* held a row of another patient
OwnRowsListedBesideOthers ==
    /\ last.op = "patient_dashboard" /\ last.invoked
    /\ Len(last.data) >= 1
    /\ \E i \in PredIds : predictions[i].user_id # last.token.user_id

---------------------------------------------------------------------------
(* Predictions while the storage backend fails and recovers, with and      *)
(* without the model files                                                 *)

FaultForms == {<<Num55, Num55>>, <<NotANumber, Num55>>}

NextFault ==
    \/ Register({"r1"}, {"patient"}, {Amy}, {MailB}, {Secret1})
    \/ Authenticate({"c1"}, {Bob, Amy}, {Secret1})
    \/ Predict({"c1"}, FaultForms, StoreProbs, MaxPredictions)
    \/ DbFail
    \/ DbRecover

SpecFault ==
    InitWith({<<User(Bob, MailA, Secret1, "patient")>>}, BOOLEAN)
        /\ [][NextFault]_vars

\* C9: each POST /patient/predict by an authenticated patient that returns a
\* prediction result while the storage answers adds exactly one assessment:
\* its owner is the session's user id, its probability is the classifier's
\* (the page shows it as a percentage rounded to two places), its category
\* is the threshold rule's for that probability, and no other assessment
\* and no user record changes.
PredictAddsOneOwnedAssessment ==
    [][\A c \in Clients, form \in FaultForms, probability \in StoreProbs :
          \A tok \in Presentable(c) :
              (/\ last'.resp = "prediction_result.html"
               /\ dbUp
               /\ PatientPredict(c, tok, form, probability)) =>
                  /\ Len(predictions') = Len(predictions) + 1
                  /\ LET row == predictions'[Len(predictions')]
                     IN  /\ row.user_id = tok.user_id
                         /\ row.probability = probability
                         /\ row.risk_category =
                                IF probability < 33000 THEN "LOW"
                                ELSE IF probability < 67000 THEN "MEDIUM"
                                ELSE "HIGH"
                         /\ last'.data.risk_category = row.risk_category
                         /\ last'.data.pct * 10 <= row.probability + 5
                         /\ last'.data.pct * 10 >= row.probability - 5
                  /\ \A i \in PredIds : predictions'[i] = predictions[i]
                  /\ users' = users
      ]_vars

\* a second patient's prediction was stored next to the first patient's
SecondPatientPredictionStored ==
    /\ last.op = "patient_predict"
    /\ last.resp = "prediction_result.html"
    /\ last.data.saved
    /\ Len(predictions) = 2
    /\ predictions[2].user_id = last.token.user_id
    /\ predictions[1].user_id # predictions[2].user_id

\* C11: when storing the assessment fails during POST /patient/predict, the
\* request still returns the computed probability, risk category and
\* recommendation to the patient, and no assessment row is added; the
\* storage failure does not turn the response into an error.
PredictSurvivesStorageFailure ==
    [][\A c \in Clients, form \in FaultForms, probability \in StoreProbs :
          \A tok \in Presentable(c) :
              (/\ last'.op = "patient_predict"
               /\ ~dbUp /\ modelLoaded
               /\ tok.user_id # 0 /\ tok.role = "patient"
               /\ \A i \in 1..Len(form) : IsNumeral(form[i])
               /\ PatientPredict(c, tok, form, probability)) =>
                  /\ last'.resp = "prediction_result.html"
                  /\ last'.data.risk_category =
                         IF probability < 33000 THEN "LOW"
                         ELSE IF probability < 67000 THEN "MEDIUM"
                         ELSE "HIGH"
                  /\ last'.data.pct * 10 <= probability + 5
                  /\ last'.data.pct * 10 >= probability - 5
                  /\ last'.data.recommendation =
                         get_recommendation(last'.data.risk_category)
                  /\ last'.data.recommendation #
                         "Unable to generate recommendation due to error."
                  /\ ~last'.data.saved
                  /\ predictions' = predictions
      ]_vars

\* with one assessment stored and the storage down, a prediction was
\* returned and not stored
PredictionReturnedUnsaved ==
    /\ ~dbUp
    /\ last.op = "patient_predict"
    /\ last.resp = "prediction_result.html"
    /\ ~last.data.saved
    /\ Len(predictions) = 1

---------------------------------------------------------------------------
(* The doctor's listing: two patients and a doctor registered, the patients *)
(* submit assessments, some within the same second, and the doctor pages   *)
(* through them.                                                            *)

PageArgs == {<<"1">>, <<"2">>, <<"0">>, NotANumber}
PerPageArgs == {<<"1">>, <<"2">>, <<"0">>, NotANumber}
PageRiskFilters == {"None", "", "HIGH"}
DateFilters == {NoneV, Day(1), Stamp(0), Stamp(1)}

NextPage ==
    \/ \E u \in {Bob, Al \o Amy, Amy} : Login("c1", u, Secret1)
    \/ Predict({"c1"}, {<<Num55, Num55>>}, {32999, 67000}, MaxListed)
    \/ Paginate({"c1"}, {<<"1">>, <<"2">>}, {<<"1">>, <<"0">>}, {"None"},
                {NoneV, <<"B", "o">>}, {NoneV})
    \/ \E tok \in Presentable("c1") :
           DoctorPredictionsCsv("c1", tok, "HIGH", NoneV, NoneV, Stamp(0))
    \/ Tick

SpecPage ==
    /\ InitWith({<<User(Bob, MailA, Secret1, "patient"),
                   User(Al \o Amy, MailB, Secret1, "patient"),
                   User(Amy, MailB \o MailA, Secret1, "doctor")>>}, {TRUE})
    /\ [][NextPage]_vars

\* the page number as the query string writes it
PageText(k) == <<DigitOf[k]>>

\* what the pages k, k + 1, ... of one listing can add up to, each page being
\* a request of its own
RECURSIVE PagesFrom(_, _, _, _, _, _)
PagesFrom(k, per_page, risk, username, start_date, end_date) ==
    IF k > Len(predictions) + 1 THEN {<<>>}
    ELSE {data.predictions \o rest :
             data \in get_predictions_paginated(PageText(k), per_page, risk, username,
                                                start_date, end_date),
             rest \in PagesFrom(k + 1, per_page, risk, username, start_date, end_date)}

\* C12: for a fixed store, any filter and any page size of at least 1, the
\* pages 1, 2, ... of the paginated query concatenated are exactly the
\* unpaginated filtered query's rows in the same order, without duplicates or
\* omissions, also when several rows have the same created_at.
PagesConcatenateToFilteredQuery ==
    \A per_page \in {<<"1">>, <<"2">>}, risk \in PageRiskFilters,
       username \in NameFilters, start_date \in DateFilters, end_date \in DateFilters :
        \A rows \in PagesFrom(1, per_page, risk, username, start_date, end_date) :
            /\ rows \in get_predictions_filtered(risk, username, start_date, end_date)
            /\ \A j, k \in 1..Len(rows) : rows[j].id = rows[k].id => j = k

\* C13: the total the paginated doctor query reports is the number of
\* assessments that satisfy all the supplied filters (risk, username
\* substring, date range), whatever page and page size are asked for: it is
\* the length of the unpaginated filtered result.
TotalCountsFilteredRows ==
    \A page \in PageArgs, per_page \in PerPageArgs, risk \in PageRiskFilters,
       username \in NameFilters, start_date \in DateFilters, end_date \in DateFilters :
        \A data \in get_predictions_paginated(page, per_page, risk, username,
                                              start_date, end_date) :
            \A rows \in get_predictions_filtered(risk, username, start_date, end_date) :
                data.total = Len(rows)

\* C14: a page of the paginated doctor query that is not the last page of the
\* matching rows holds exactly page-size rows, and every row on it satisfies
\* every supplied filter.
FullPagesBeforeTheLast ==
    \A page \in {<<"1">>, <<"2">>}, per_page \in {<<"1">>, <<"2">>},
       risk \in PageRiskFilters, username \in NameFilters :
        \A data \in get_predictions_paginated(page, per_page, risk, username,
                                              NoneV, NoneV) :
            /\ \A rows \in get_predictions_filtered(risk, username, NoneV, NoneV) :
                   ToInt(page) * ToInt(per_page) < Len(rows)
                       => Len(data.predictions) = ToInt(per_page)
            /\ \A k \in 1..Len(data.predictions) :
                   /\ risk = "HIGH" => data.predictions[k].risk_category = "HIGH"
                   /\ username = <<"B", "o">>
                          => Contains(<<"b", "o">>, Lower(data.predictions[k].username))

\* the moment a date filter names: a timestamp names its second, a day its
\* first second
Instant(d) == IF d = Day(1) THEN 0 ELSE CHOOSE k \in 0..9 : Stamp(k) = d

\* C15: an assessment is in the filtered doctor query's result if and only if
\* it satisfies every supplied filter: its risk category equals the risk
\* filter, its owner's username contains the username filter whatever the
\* letters' case, and start_date <= created_at <= end_date with both bounds
\* included; a filter that is not supplied excludes nothing.
FilteredQueryIsTheConjunction ==
    \A risk \in PageRiskFilters, username \in NameFilters,
       start_date \in DateFilters, end_date \in DateFilters :
        \A rows \in get_predictions_filtered(risk, username, start_date, end_date) :
            ListedIds(rows) =
                {i \in PredIds :
                    /\ risk = "HIGH" => predictions[i].risk_category = "HIGH"
                    /\ username = <<"B", "o">>
                           => Contains(<<"b", "o">>, Lower(users[predictions[i].user_id].username))
                    /\ start_date # NoneV => Instant(start_date) <= predictions[i].created_at
                    /\ end_date # NoneV => predictions[i].created_at <= Instant(end_date)}

\* newest first, and among rows of one created_at the one stored first
InListingOrder(rows) ==
    \A j, k \in 1..Len(rows) :
        j < k => \/ rows[j].created_at > rows[k].created_at
                 \/ /\ rows[j].created_at = rows[k].created_at
                    /\ rows[j].id < rows[k].id

\* C16: every multi-row assessment query (patient history, doctor listing,
\* filtered and paginated queries) returns its rows by created_at descending
\* with rows of identical created_at in insertion order (ascending id), so
\* that the same query on the same store always returns the same sequence.
QueriesOrderedWithStableTies ==
    /\ \A user_id \in UserIds :
           /\ Cardinality(get_patient_predictions(user_id)) = 1
           /\ \A rows \in get_patient_predictions(user_id) : InListingOrder(rows)
    /\ Cardinality(get_all_predictions) = 1
    /\ \A rows \in get_all_predictions : InListingOrder(rows)
    /\ \A risk \in PageRiskFilters, username \in NameFilters :
           /\ Cardinality(get_predictions_filtered(risk, username, NoneV, NoneV)) = 1
           /\ \A rows \in get_predictions_filtered(risk, username, NoneV, NoneV) :
                  InListingOrder(rows)
           /\ \A page \in {<<"1">>, <<"2">>}, per_page \in {<<"1">>, <<"2">>} :
                  /\ Cardinality(get_predictions_paginated(page, per_page, risk,
                                                           username, NoneV, NoneV)) = 1
                  /\ \A data \in get_predictions_paginated(page, per_page, risk,
                                                            username, NoneV, NoneV) :
                         InListingOrder(data.predictions)

\* the page and the page size the query is to use for what the request
\* carries: 1 for a page that is no number or below 1, 10 for such a page size
PageAsked(page) == IF IsInt(page) /\ ToInt(page) >= 1 THEN page ELSE <<"1">>
PerPageAsked(per_page) ==
    IF IsInt(per_page) /\ ToInt(per_page) >= 1 THEN per_page ELSE <<"1", "0">>

\* C17: the paginated doctor query replaces a page that is not numeric or
\* below 1 by 1 and a page size that is not numeric or below 1 by 10, and a
\* page beyond the last one yields an empty list with the correct total, not
\* an error.
PageArgumentsFallBack ==
    \A page \in PageArgs, per_page \in PerPageArgs, username \in NameFilters :
        /\ get_predictions_paginated(page, per_page, "None", username, NoneV, NoneV)
              = get_predictions_paginated(PageAsked(page), PerPageAsked(per_page),
                                          "None", username, NoneV, NoneV)
        /\ \A data \in get_predictions_paginated(page, per_page, "None", NoneV,
                                                  NoneV, NoneV) :
               (IsInt(page) /\ IsInt(per_page) /\ ToInt(per_page) >= 1
                   /\ (ToInt(page) - 1) * ToInt(per_page) >= Cardinality(Joined))
                  => data = [predictions |-> <<>>, total |-> Cardinality(Joined)]

---------------------------------------------------------------------------
(* register_user called with every kind of argument, one call at a time,   *)
(* the storage failing and recovering in between.                           *)

CallRoles == {"patient", "doctor", "admin"}
CallUsernames == {Bob, Amy, Al}
CallPasswords == {Secret1, Pass}
CallEmails == {MailA, MailB}

NextRegister ==
    \/ Register({"r1"}, CallRoles, CallUsernames, CallEmails, CallPasswords)
    \/ DbFail
    \/ DbRecover

SpecRegister == Init /\ [][NextRegister]_vars

\* the three constraints of register_user on its arguments
ArgumentsValid(username, password, role) ==
    /\ Len(username) >= 3
    /\ Len(password) >= 6
    /\ role \in {"patient", "doctor"}

\* the call succeeds: exactly one user, of the role asked for, is added
RegisteredOne(r) ==
    /\ reg'[r].ok
    /\ Len(users') = Len(users) + 1
    /\ SubSeq(users', 1, Len(users)) = users
    /\ users'[Len(users')].username = reg[r].username
    /\ users'[Len(users')].role = reg[r].role

---------------------------------------------------------------------------
(* Profile updates: a patient and a doctor registered, either logs in and   *)
(* submits changes of username, e-mail address and password, the storage    *)
(* failing and recovering in between.                                       *)

ProfileInputs ==
    [username : {NoneV, Al, Amy, Al \o Amy}, email : {NoneV, MailB},
     password : {NoneV, Pass, Hunter2}, confirm_password : {Hunter2}]

NextProfile ==
    \/ \E u \in {Bob, Amy} : Login("c1", u, Secret1)
    \/ UpdateProfile({"c1"}, ProfileInputs)
    \/ DbFail
    \/ DbRecover

SpecProfile ==
    /\ InitWith({<<User(Bob, MailA, Secret1, "patient"),
                   User(Amy, MailB, Secret1, "doctor")>>}, {TRUE})
    /\ [][NextProfile]_vars

Refusable(user_id, data) ==
    \/ data.username # NoneV /\ Len(data.username) < 3
    \/ data.password # NoneV /\ Len(data.password) < 6
    \/ /\ data.username # NoneV
       /\ \E i \in UserIds \ {user_id} : users[i].username = data.username
    \/ /\ data.email # NoneV
       /\ \E i \in UserIds \ {user_id} : users[i].email = data.email

\* C20: update_user_profile validates every changed field again: it returns
\* failure and stores nothing when the new username has fewer than 3
\* characters, the new password fewer than 6, or the new username or the new
\* e-mail address is already held by another user.
ProfileUpdateRefusesInvalidChanges ==
    [][\A c \in {"c1"}, data \in ProfileInputs :
          \A tok \in Presentable(c) :
              (/\ upd[c].pc = "idle"
               /\ tok.user_id # NoId
               /\ Refusable(tok.user_id, data)
               /\ ProfileUpdateCheck(c, tok, data)) =>
                  /\ last'.op = "profile_update"
                  /\ last'.data = [success |-> FALSE]
                  /\ upd'[c].pc = "idle"
                  /\ users' = users
      ]_vars

---------------------------------------------------------------------------
(* Storage failures during login and registration (SpecFault) *)

\* C21: when the storage backend is unavailable during login_user or
\* register_user, the request ends in a storage-error outcome the caller can
\* tell apart from bad credentials or a validation failure: it is never
\* reported as success and never as 'Invalid username or password'.
StorageFailureToldApart ==
    [][/\ \A c \in {"c1"}, u \in {Bob, Amy}, p \in {Secret1} :
             (last'.op = "login" /\ ~dbUp /\ Login(c, u, p)) =>
                 /\ ~last'.data.ok
                 /\ last'.resp # "login.html: Invalid username or password"
       /\ \A r \in {"r1"} :
             (/\ ~dbUp /\ reg'[r] # reg[r] /\ reg'[r].pc = "done"
              /\ reg'[r].message # "Passwords do not match") =>
                 /\ ~reg'[r].ok
                 /\ reg'[r].message = StorageErrorMessage
      ]_vars

---------------------------------------------------------------------------
(* The single-role application: one registered user, two browsers, the      *)
(* model files found or not.                                                *)

OldForms == {<<Num55, Num55>>, <<Num55, NoneV>>, <<Num55, Empty>>,
             <<NotANumber, NoneV>>}

NextSingle ==
    \/ SingleRole(Clients, {Bob}, {Secret1, Hunter2}, OldForms, {32999, 67000}, MaxLog)
    \/ Tick

SpecSingle ==
    /\ variant = "sqlite"
    /\ InitWith({<<User(Bob, Empty, Secret1, "none")>>}, BOOLEAN)
    /\ [][NextSingle]_vars

---------------------------------------------------------------------------
(* Missing features (SpecFeatures): browser c1 is a patient of the          *)
(* multi-role application, browser c2 uses the single-role application.     *)

FeatureForms == {<<Num55, Num55>>, <<Num55, NoneV>>, <<NoneV, NoneV>>,
                 <<Empty, Num55>>, <<Empty, NoneV>>, <<NotANumber, NoneV>>}

NextFeatures ==
    \/ \E p \in {Secret1} : Login("c1", Bob, p)
    \/ Predict({"c1"}, FeatureForms, {32999}, MaxPredictions)
    \/ SingleRole({"c2"}, {Bob}, {Secret1}, FeatureForms, {32999}, MaxLog)
    \/ Tick

SpecFeatures ==
    /\ variant = "sqlite"
    /\ InitWith({<<User(Bob, MailA, Secret1, "patient")>>}, BOOLEAN)
    /\ [][NextFeatures]_vars

Least(S) == CHOOSE i \in S : \A j \in S : i <= j

MissingFields(form) == {i \in 1..Len(FEATURE_NAMES) : IsMissing(form[i])}

AbsentKeys(body) == {i \in 1..Len(FEATURE_NAMES) : body[i] = NoneV}

\* the step is the patient's form, submitted with a field missing
FormStep(form) ==
    /\ last'.op = "patient_predict"
    /\ MissingFields(form) # {}
    /\ patient_required(last'.token)
    /\ PatientPredict(last'.client, last'.token, form, 32999)

\* the step is the JSON request of a logged-in user, sent with a key absent
JsonStep(body) ==
    /\ last'.op = "api_predict"
    /\ AbsentKeys(body) # {}
    /\ login_required(last'.token)
    /\ ApiPredict(last'.client, last'.token, body, 32999)

\* the classifier did not run and nothing was stored
NothingPredicted ==
    /\ last'.resp # "prediction_result.html"
    /\ last'.data = NoData
    /\ predictions' = predictions
    /\ log' = log
    /\ job' = job

---------------------------------------------------------------------------
(* Requests without a login to the single-role application (SpecSingle)     *)

\* C23: POST /api/predict without a logged-in session is answered 401
\* "authentication required", not by a redirect, and predicts nothing.
ApiPredictAnswers401 ==
    [][\A body \in OldForms, probability \in {32999, 67000} :
           (/\ last'.op = "api_predict"
            /\ ~login_required(last'.token)
            /\ ApiPredict(last'.client, last'.token, body, probability)) =>
               /\ last'.resp = "401: authentication required"
               /\ last'.data = NoData
               /\ log' = log
               /\ job' = job
      ]_vars

\* C24: GET /api/predictions-log without a logged-in session does not
\* return the records of the log.
PredictionsLogProtected ==
    [][(/\ last'.op = "predictions_log"
        /\ ~login_required(last'.token)
        /\ log # <<>>
        /\ get_predictions_log(last'.client, last'.token)) =>
           /\ last'.resp # "200"
           /\ last'.data # LastRecords(log)
      ]_vars

---------------------------------------------------------------------------
(* Registration with names that differ in case, and with the storage        *)
(* failing between the two inserts (SpecSignup)                             *)

BobCap == <<"B", "o", "b">>

NextSignup ==
    \/ Register({"r1"}, {"patient", "doctor"}, {Bob, BobCap, Amy}, {MailA, MailB},
                {Secret1})
    \/ RegisterInterrupted("r1")
    \/ DbFail
    \/ DbRecover

SpecSignup == Init /\ [][NextSignup]_vars

\* C25: no two stored usernames are equal up to letter case (register_user
\* rejects a username that differs from a stored one only in case).
UsernamesUniqueUpToCase ==
    \A i, j \in UserIds :
        Lower(users[i].username) = Lower(users[j].username) => i = j

\* the profile documents kept for a user
ProfilesOf(docs, user_id) == {k \in DOMAIN docs : docs[k].user_id = user_id}

\* C28: a register_user call that returns failure has added no user record;
\* one that returns success has added exactly one user and, in MongoDB,
\* exactly one profile document of the matching role.
RegistrationAllOrNothing ==
    [][\A r \in {"r1"} :
           (reg'[r] # reg[r] /\ reg'[r].pc = "done") =>
               IF reg'[r].ok
               THEN /\ Len(users') = Len(users) + 1
                    /\ SubSeq(users', 1, Len(users)) = users
                    /\ variant = "mongodb" =>
                           /\ Len(profiles') = Len(profiles) + 1
                           /\ \A k \in ProfilesOf(profiles', Len(users')) :
                                  profiles'[k] =
                                      profile_doc(Len(users'), users'[Len(users')].role)
                           /\ Cardinality(ProfilesOf(profiles', Len(users'))) = 1
               ELSE /\ users' = users
                    /\ profiles' = profiles
      ]_vars

---------------------------------------------------------------------------
(* The prediction log under concurrent requests (SpecSingle)                *)

\* C26: every prediction request that completes leaves the log one record
\* longer, with every earlier record still in it, whatever other requests
\* run at the same time.
LogGrowsByOnePerPrediction ==
    [][\A c \in Clients :
           (job[c].pc = "write" /\ LogWrite(c)) =>
               /\ Len(log') = Len(log) + 1
               /\ SubSeq(log', 1, Len(log)) = log
      ]_vars

---------------------------------------------------------------------------
(* Changing the password and logging in with it (SpecPassword)              *)

PadHunter == <<" ">> \o Hunter2

NewPasswords == {Secret1, Hunter2, PadHunter}

PasswordInputs ==
    [username : {NoneV}, email : {NoneV}, password : NewPasswords,
     confirm_password : NewPasswords]

NextPassword ==
    \/ Authenticate({"c1", "c2"}, {Bob}, NewPasswords)
    \/ UpdateProfile({"c1"}, PasswordInputs)

SpecPassword ==
    /\ InitWith({<<User(Bob, MailA, Secret1, "patient")>>}, {TRUE})
    /\ [][NextPassword]_vars

\* POST /login with these fields would be let in, given this users table
LoginAccepts(table, rawUsername, rawPassword) ==
    \E i \in DOMAIN table :
        /\ table[i].username = Strip(rawUsername)
        /\ \A k \in DOMAIN table : table[k].username = Strip(rawUsername) => i <= k
        /\ check_password_hash(table[i].password_hash, Strip(rawPassword))

\* C27: once POST /profile/update has succeeded with the new password P,
\* POST /login with the user's name and the same P succeeds, whatever P the
\* update accepted, and a password that logged in before and is not P no
\* longer does.
PasswordRoundTrip ==
    [][\A c \in {"c1"}, P \in NewPasswords :
           (/\ upd[c].pc = "write"
            /\ FieldPassword(P) = upd[c].password
            /\ ProfileUpdateWrite(c)
            /\ last'.data.success) =>
               LET name == users'[upd[c].token.user_id].username
               IN  /\ LoginAccepts(users', name, P)
                   /\ \A Q \in NewPasswords :
                          (LoginAccepts(users, name, Q) /\ Strip(Q) # Strip(P)) =>
                              ~LoginAccepts(users', name, Q)
      ]_vars

---------------------------------------------------------------------------
(* One user in two browsers (SpecSessions)                                  *)

RenameInputs ==
    [username : {NoneV, Amy, Al \o Amy}, email : {NoneV}, password : {NoneV},
     confirm_password : {NoneV}]

NextSessions ==
    \/ Authenticate(Clients, {Bob, Amy}, {Secret1})
    \/ UpdateProfile(Clients, RenameInputs)

SpecSessions ==
    /\ InitWith({<<User(Bob, MailA, Secret1, "patient")>>}, {TRUE})
    /\ [][NextSessions]_vars

\* C29: the username in every live session is the username now stored for
\* the session's user_id.
SessionNameIsStoredName ==
    \A c \in Clients :
        HasUserId(session[c]) =>
            session[c].username = users[session[c].user_id].username

---------------------------------------------------------------------------
(* The page metadata of the doctor's listing (SpecPage)                     *)

\* ceil(total / per_page), at least 1
PagesNeeded(total, per_page) ==
    IF total = 0 THEN 1 ELSE FloorDiv(total - 1, per_page) + 1

\* C30: whatever page and per_page are asked for, GET /doctor/predictions
\* answers normally, reports the page and per_page the slice was cut with,
\* and total_pages = max(1, ceil(total / per_page used)).
ListingMetadataMatchesSlice ==
    [][\A page \in {<<"1">>, <<"2">>}, per_page \in {<<"1">>, <<"0">>},
         name \in {NoneV, <<"B", "o">>} :
           (/\ last'.op = "doctor_predictions"
            /\ doctor_required(last'.token)
            /\ DoctorPredictions(last'.client, last'.token, page, per_page,
                                 "None", name, NoneV, NoneV)) =>
               /\ last'.resp = "json"
               /\ last'.data.page = PageParams(page, per_page).page
               /\ last'.data.per_page = PageParams(page, per_page).per_page
               /\ last'.data.total_pages =
                      PagesNeeded(last'.data.total, PageParams(page, per_page).per_page)
      ]_vars

====
